---- MODULE Spec2Model ----
(***************************************************************************)
(* Decision core of the authorization engine: the effect algebra           *)
(* (combine_non_strict / combine_strict), DependentEffect::resolve and      *)
(* resolve_all against an Environment, Policy::apply / apply_disjoint,      *)
(* Assertion and Policy::for_subject, PolicyTemplate::apply, and the        *)
(* EqualityMatcher and PathMatcher.                                         *)
(*                                                                         *)
(* The specifications share the variables below:                           *)
(*   SpecCombine    - the two combinators applied to bounded effect lists  *)
(*   Spec           - resolve / resolve_all on bounded DependentEffects    *)
(*   SpecPolicy     - applies, apply / apply_disjoint followed by resolve  *)
(*   SpecAssertion  - the predicates of one Assertion                      *)
(*   SpecForSubject - Policy::for_subject and ForSubjectIter::next         *)
(*   SpecTemplate   - PolicyTemplate::apply                                *)
(*   SpecEquality   - EqualityMatcher built and tested                     *)
(*   SpecPath       - PathMatcher built and tested                         *)
(*   SpecRepeat     - resolve called repeatedly on one DependentEffect     *)
(*   SpecEffect2    - authorized / silent of a ComputedEffect2             *)
(*   SpecNode       - Node::eval on a tree of computed effects             *)
(* A variable a specification does not use keeps its idle value.            *)
(***************************************************************************)
EXTENDS Integers, Sequences, FiniteSets, TLC

VARIABLES
    xs,         \* SpecCombine: first input list of computed effects
    ys,         \* SpecCombine: second input list of computed effects
    ns,         \* SpecCombine: results of combine_non_strict (NoResults until called)
    st,         \* SpecCombine: results of combine_strict (NoResults until called)
    tree,       \* Spec, SpecPolicy: the DependentEffect resolve is called on
    env,        \* Spec, SpecPolicy: the Environment (CExp -> Result<bool, Err>)
    resolved,   \* Spec, SpecPolicy: what resolve returned (NotResolved until called)
    policies,   \* SpecPolicy: the policies handed to apply / apply_disjoint
    subject,    \* SpecPolicy: the concrete (resource, action)
    called,     \* which operation produced tree ("given" when it is an input)
    batch,      \* Spec: what resolve_all returned (NotResolved until called)
    applicable, \* SpecPolicy: what Policy::applies returned (NotAsked until called)
    assertions, \* SpecAssertion, SpecForSubject: the Policy, a list of Assertions
    iter,       \* SpecForSubject: the live ForSubjectIter (NoIter before for_subject)
    returned,   \* SpecForSubject: what the calls of next on iter returned, in order
    previous,   \* SpecForSubject: subject and items of the iterator before iter
    verdict,    \* SpecAssertion: the answers of one Assertion's predicates
    probe,      \* SpecEquality: one EqualityMatcher built and tested
    path,       \* SpecPath: the Path a PathMatcher may be converted from
    tpath,      \* SpecPath: the Path a PathMatcher is tested on
    pmatcher,   \* SpecPath: the PathMatcher and how it was built
    accepted,   \* SpecPath: what PathMatcher::test returned
    templates,  \* SpecTemplate: the PolicyTemplates written so far
    param,      \* SpecTemplate: the parameter given to Template::apply
    generated,  \* SpecTemplate: the Policy that Template::apply returned
    authz,      \* SpecCombine: what the authorized functions returned
    history,    \* SpecRepeat: the resolve calls made on tree, in order
    stack,      \* SpecEffect2, SpecNode: the values built so far, the last on top
    answer      \* SpecEffect2, SpecNode: what was asked of the top value

assertionVars == <<assertions, iter, returned, previous, verdict>>
matcherVars == <<probe, path, tpath, pmatcher, accepted>>
templateVars == <<templates, param, generated>>
decisionVars == <<xs, ys, ns, st, tree, env, resolved, policies, subject, called,
                  batch, applicable>>

effectVars == <<authz, history, stack, answer>>

vars == <<decisionVars, assertionVars, matcherVars, templateVars, effectVars>>

(***************************************************************************)
(* Bounds                                                                  *)
(***************************************************************************)
MaxLen == 4
MaxNodes == 4
MaxPolicyNodes == 3

(***************************************************************************)
(* Effects.  authorization.rs represents a computed effect as              *)
(* Option<Effect>: None is silence.                                        *)
(***************************************************************************)
ALLOW == "ALLOW"
DENY == "DENY"
SILENT == "SILENT"

Effect == {ALLOW, DENY}
ComputedEffect == {ALLOW, DENY, SILENT}

\* Accumulator of combine_strict before the first element (O_INIT).
O_INIT == "O_INIT"

(***************************************************************************)
(* combine_non_strict: fold from silence.                                  *)
(***************************************************************************)
\* A fold step in which the latest non-silent effect wins.
non_strict_fold_last_wins(a, e) ==
    IF e = SILENT THEN a ELSE e

\* A fold step without the (x, None) => x arm: a trailing silence falls
\* through to the catch-all.
non_strict_fold_missing_arm(a, e) ==
    IF a = SILENT THEN e
    ELSE IF a = ALLOW /\ e = ALLOW THEN ALLOW
    ELSE DENY

\* The closure of the fold; the match arms are tried in order.
non_strict_fold(a, e) ==
    IF a = SILENT THEN e
    ELSE IF e = SILENT THEN a
    ELSE IF a = ALLOW /\ e = ALLOW THEN ALLOW
    ELSE DENY

RECURSIVE non_strict_from(_, _)
non_strict_from(a, effs) ==
    IF effs = <<>> THEN a
    ELSE non_strict_from(non_strict_fold(a, Head(effs)), Tail(effs))

combine_non_strict(effs) == non_strict_from(SILENT, effs)

(***************************************************************************)
(* combine_strict: fold from O_INIT, unwrap_or silence.                     *)
(***************************************************************************)
\* A fold step that forgets a silence once a later definite effect arrives.
strict_fold_silence_not_sticky(a, e) ==
    IF a = O_INIT THEN e
    ELSE IF e = SILENT THEN SILENT
    ELSE IF a = SILENT THEN e
    ELSE IF a = ALLOW /\ e = ALLOW THEN ALLOW
    ELSE DENY

strict_fold(a, e) ==
    IF a = O_INIT THEN e
    ELSE IF a = SILENT THEN SILENT
    ELSE IF e = SILENT THEN SILENT
    ELSE IF a = ALLOW /\ e = ALLOW THEN ALLOW
    ELSE DENY

RECURSIVE strict_from(_, _)
strict_from(a, effs) ==
    IF effs = <<>> THEN a
    ELSE strict_from(strict_fold(a, Head(effs)), Tail(effs))

combine_strict(effs) ==
    LET a == strict_from(O_INIT, effs)
    IN  IF a = O_INIT THEN SILENT ELSE a

(***************************************************************************)
(* Results.  Ok(v) / Err(e) stand for Rust's Result.                        *)
(***************************************************************************)
Ok(v) == [tag |-> "Ok", val |-> v]
Err(e) == [tag |-> "Err", val |-> e]

\* Environment::Err values an environment can answer with.
Errors == {"e1", "e2"}

\* Environment::CExp values: opaque condition expressions.
CExp == {"c1", "c2"}

\* Result<bool, Err>
TestResults == {Ok(TRUE), Ok(FALSE)} \cup {Err(e) : e \in Errors}

(***************************************************************************)
(* DependentEffect<CExp>                                                   *)
(***************************************************************************)
NoEffect == "-"
NoCExp == "-"

Silent == [kind |-> "Silent", eff |-> NoEffect, cexp |-> NoCExp, children |-> <<>>]
Unconditional(eff) ==
    [kind |-> "Unconditional", eff |-> eff, cexp |-> NoCExp, children |-> <<>>]
Conditional(eff, cexp) ==
    [kind |-> "Conditional", eff |-> eff, cexp |-> cexp, children |-> <<>>]
NonStrict(perms) ==
    [kind |-> "NonStrict", eff |-> NoEffect, cexp |-> NoCExp, children |-> perms]
Strict(effs) ==
    [kind |-> "Strict", eff |-> NoEffect, cexp |-> NoCExp, children |-> effs]

(***************************************************************************)
(* Idle values of the variables a specification does not use.              *)
(***************************************************************************)
Unset == "UNSET"
NoResults == [x |-> Unset, y |-> Unset, cat |-> Unset, grp |-> Unset]
NotResolved == [result |-> [tag |-> "None", val |-> "-"], tested |-> <<>>]
IdleEnv == [c \in CExp |-> Ok(TRUE)]
IdleSubject == [resource |-> "-", action |-> "-"]
NotAsked == [asked |-> FALSE, answer |-> FALSE]
Answer(b) == [asked |-> TRUE, answer |-> b]

CombineIdle ==
    /\ xs = <<>>
    /\ ys = <<>>
    /\ ns = NoResults
    /\ st = NoResults

ResolveIdle ==
    /\ tree = Silent
    /\ env = IdleEnv
    /\ resolved = NotResolved
    /\ batch = NotResolved

PolicyIdle ==
    /\ policies = <<>>
    /\ subject = IdleSubject
    /\ called = "given"
    /\ applicable = NotAsked

NoIter == [resource |-> "-", action |-> "-", source |-> <<>>, live |-> FALSE]
NoRun == [resource |-> "-", action |-> "-", items |-> <<>>, ran |-> FALSE]
NoProbe ==
    [x |-> "-", y |-> "-", built |-> "-", matcher |-> [kind |-> "-", only |-> "-"],
     result |-> NotAsked]
NoPathMatcher == [built |-> "-", elems |-> <<>>]
NoAnswers ==
    [applies |-> NotAsked, apply |-> [asked |-> FALSE, answer |-> SILENT],
     applies_to_resource |-> NotAsked, applies_to_action |-> NotAsked,
     applies_to_subject |-> NotAsked]

AssertionIdle ==
    /\ assertions = <<>>
    /\ iter = NoIter
    /\ returned = <<>>
    /\ previous = NoRun
    /\ verdict = NoAnswers

MatcherIdle ==
    /\ probe = NoProbe
    /\ path = <<>>
    /\ tpath = <<>>
    /\ pmatcher = NoPathMatcher
    /\ accepted = NotAsked

TemplateIdle ==
    /\ templates = <<>>
    /\ param = "-"
    /\ generated = <<>>

NoAuthorized ==
    [asked |-> FALSE, eff |-> "-", ceff |-> "-", effect |-> FALSE, computed |-> FALSE,
     option |-> FALSE, non_strict |-> <<>>, strict |-> <<>>]
NoEval == [asked |-> FALSE, authorized |-> FALSE, silent |-> FALSE, eval |-> "-"]

EffectIdle ==
    /\ authz = NoAuthorized
    /\ history = <<>>
    /\ stack = <<>>
    /\ answer = NoEval

(***************************************************************************)
(* SpecCombine: the combinators applied to every pair of effect lists of    *)
(* at most MaxLen elements.                                                 *)
(***************************************************************************)
RECURSIVE SeqsUpTo(_, _)
SeqsUpTo(S, n) ==
    IF n = 0 THEN {<<>>}
    ELSE LET shorter == SeqsUpTo(S, n - 1)
         IN  shorter \cup {Append(q, e) : q \in {p \in shorter : Len(p) = n - 1}, e \in S}

EffectLists == SeqsUpTo(ComputedEffect, MaxLen)

InitCombine ==
    /\ xs \in EffectLists
    /\ ys \in EffectLists
    /\ ns = NoResults
    /\ st = NoResults
    /\ ResolveIdle
    /\ PolicyIdle
    /\ AssertionIdle
    /\ MatcherIdle
    /\ TemplateIdle
    /\ EffectIdle

\* combine_non_strict called on xs, on ys, on their concatenation, and on the
\* two-element list of the two partial results.
CallNonStrict ==
    /\ ns = NoResults
    /\ ns' = [x   |-> combine_non_strict(xs),
              y   |-> combine_non_strict(ys),
              cat |-> combine_non_strict(xs \o ys),
              grp |-> combine_non_strict(<<combine_non_strict(xs), combine_non_strict(ys)>>)]
    /\ UNCHANGED <<xs, ys, st, tree, env, resolved, policies, subject, called>>
    /\ UNCHANGED <<batch, applicable, assertionVars, matcherVars, templateVars, effectVars>>

\* combine_strict called on the same four lists.
CallStrict ==
    /\ st = NoResults
    /\ st' = [x   |-> combine_strict(xs),
              y   |-> combine_strict(ys),
              cat |-> combine_strict(xs \o ys),
              grp |-> combine_strict(<<combine_strict(xs), combine_strict(ys)>>)]
    /\ UNCHANGED <<xs, ys, ns, tree, env, resolved, policies, subject, called>>
    /\ UNCHANGED <<batch, applicable, assertionVars, matcherVars, templateVars, effectVars>>

(***************************************************************************)
(* Authorization of an effect: the Authorized and Silent traits and the     *)
(* authorized function over Option<Effect>.                                 *)
(***************************************************************************)
\* An authorized that grants whatever is not denied.
authorized_unless_denied(eff) == eff # DENY

\* authorized(eff: Option<Effect>): eff == Some(Effect::ALLOW).
authorized(eff) == eff = ALLOW

\* Authorized for Effect: *self == Effect::ALLOW.
Effect_authorized(self) == self = ALLOW

\* Silent for Effect: an Effect is never silent.
Effect_silent(self) == FALSE

\* Authorized for ComputedEffect: *self == ALLOW.
ComputedEffect_authorized(self) == self = ALLOW

\* Silent for ComputedEffect: *self == SILENT.
ComputedEffect_silent(self) == self = SILENT

ResultNames == {"x", "y", "cat", "grp"}

\* The three authorized functions called on an Effect and on a computed
\* effect, and authorized called on every result of the two combinators.
CallAuthorized ==
    /\ ns # NoResults
    /\ st # NoResults
    /\ authz = NoAuthorized
    /\ \E e \in Effect, c \in ComputedEffect :
          authz' = [asked      |-> TRUE,
                    eff        |-> e,
                    ceff       |-> c,
                    effect     |-> Effect_authorized(e),
                    computed   |-> ComputedEffect_authorized(c),
                    option     |-> authorized(c),
                    non_strict |-> [k \in ResultNames |-> authorized(ns[k])],
                    strict     |-> [k \in ResultNames |-> authorized(st[k])]]
    /\ UNCHANGED <<decisionVars, assertionVars, matcherVars, templateVars>>
    /\ UNCHANGED <<history, stack, answer>>

NextCombine == CallNonStrict \/ CallStrict \/ CallAuthorized

SpecCombine == InitCombine /\ [][NextCombine]_vars

Has(effs, e) == \E i \in 1..Len(effs) : effs[i] = e
All(effs, e) == \A i \in 1..Len(effs) : effs[i] = e
Count(effs, e) == Cardinality({i \in 1..Len(effs) : effs[i] = e})
IsPermutation(p, q) ==
    /\ Len(p) = Len(q)
    /\ \A e \in ComputedEffect : Count(p, e) = Count(q, e)

\* C1: combine_non_strict is SILENT iff the list is empty or all SILENT;
\* otherwise DENY iff some element is DENY; otherwise ALLOW.
C1_NonStrictContract ==
    ns # NoResults =>
        /\ (ns.x = SILENT) <=> All(xs, SILENT)
        /\ (ns.x = DENY) <=> Has(xs, DENY)
        /\ (ns.x = ALLOW) <=> (Has(xs, ALLOW) /\ ~Has(xs, DENY))
        /\ ns.x \in ComputedEffect

C1_Witness ==
    /\ ns # NoResults
    /\ Len(xs) >= 3
    /\ xs[1] = SILENT /\ xs[2] = DENY /\ xs[3] = ALLOW
    /\ ns.x = DENY

\* C2: combine_strict is SILENT iff the list is empty or some element is
\* SILENT (in any position); otherwise DENY iff some element is DENY; it is
\* ALLOW iff the list is non-empty and all ALLOW.
C2_StrictContract ==
    st # NoResults =>
        /\ (st.x = SILENT) <=> (xs = <<>> \/ Has(xs, SILENT))
        /\ (st.x = DENY) <=> (Has(xs, DENY) /\ ~Has(xs, SILENT))
        /\ (st.x = ALLOW) <=> (xs # <<>> /\ All(xs, ALLOW))
        /\ st.x \in ComputedEffect

C2_Witness ==
    /\ st # NoResults
    /\ Len(xs) >= 3
    /\ xs[1] = DENY /\ xs[2] = ALLOW /\ xs[3] = SILENT
    /\ st.x = SILENT

\* C6: both combinators give the same result on a list and on every
\* permutation of it.
C6_PermutationInvariance ==
    IsPermutation(xs, ys) =>
        /\ ns # NoResults => ns.x = ns.y
        /\ st # NoResults => st.x = st.y

C6_Witness ==
    /\ IsPermutation(xs, ys)
    /\ xs # ys
    /\ Has(xs, ALLOW) /\ Has(xs, DENY)
    /\ ns # NoResults /\ st # NoResults
    /\ ns.y = DENY /\ st.y = DENY

\* C7: combine_non_strict(xs ++ ys) =
\*     combine_non_strict([combine_non_strict(xs), combine_non_strict(ys)]).
C7_NonStrictRegrouping ==
    ns # NoResults => ns.cat = ns.grp

C7_Witness ==
    /\ ns # NoResults
    /\ Has(xs, SILENT) /\ Has(xs, ALLOW) /\ ~Has(xs, DENY)
    /\ Has(ys, DENY)
    /\ ns.x = ALLOW /\ ns.y = DENY /\ ns.grp = DENY

\* C8 as stated: combine_strict(xs ++ ys) =
\*     combine_strict([combine_strict(xs), combine_strict(ys)]) for all xs, ys.
C8_StrictRegroupingAll ==
    st # NoResults => st.cat = st.grp

\* Exactly one of the two lists is empty and the other holds no SILENT.
LoneEmptyGroup ==
    \/ xs = <<>> /\ ys # <<>> /\ ~Has(ys, SILENT)
    \/ ys = <<>> /\ xs # <<>> /\ ~Has(xs, SILENT)

\* C8 (amended): the regrouping equation of combine_strict holds unless
\* exactly one of xs, ys is empty and the other contains no SILENT; in that
\* case the regrouped result is SILENT while the flat one is ALLOW or DENY.
C8_StrictRegrouping ==
    st # NoResults =>
        /\ ~LoneEmptyGroup => st.cat = st.grp
        /\ LoneEmptyGroup => (st.grp = SILENT /\ st.cat \in {ALLOW, DENY})

C8_Witness ==
    /\ st # NoResults
    /\ Len(xs) >= 2 /\ Len(ys) >= 2
    /\ Has(xs, ALLOW) /\ Has(ys, DENY)
    /\ st.x = ALLOW /\ st.y = DENY /\ st.cat = DENY /\ st.grp = DENY

\* C21: default deny.  authorized is true for ALLOW only, for an Effect, for
\* a computed effect and for an Option<Effect> (SILENT standing for None);
\* so a SILENT result of combine_non_strict or combine_strict, whatever the
\* input list, is never authorized, and neither is a DENY result.
C21_DefaultDeny ==
    authz.asked =>
        /\ authz.effect = (authz.eff = ALLOW)
        /\ authz.computed = (authz.ceff = ALLOW)
        /\ authz.option = (authz.ceff = ALLOW)
        /\ \A k \in ResultNames :
              /\ authz.non_strict[k] = (ns[k] = ALLOW)
              /\ authz.strict[k] = (st[k] = ALLOW)
              /\ ns[k] = SILENT => ~authz.non_strict[k]
              /\ st[k] = SILENT => ~authz.strict[k]

\* authorized refused the SILENT that combine_non_strict gave for a list of
\* silences and the SILENT that combine_strict gave for a list holding an
\* ALLOW, and granted an ALLOW.
C21_Witness ==
    /\ authz.asked
    /\ xs # <<>>
    /\ ns.x = SILENT
    /\ ~authz.non_strict.x
    /\ Has(ys, ALLOW)
    /\ st.y = SILENT
    /\ ~authz.strict.y
    /\ authz.ceff = ALLOW
    /\ authz.option
    /\ authz.eff = DENY
    /\ ~authz.effect

(***************************************************************************)
(* Environment: test_condition(exp) -> Result<bool, Err>.  An environment  *)
(* is modelled by the answer it gives to each condition expression.        *)
(***************************************************************************)
Environments == [CExp -> TestResults]

test_condition(environment, exp) == environment[exp]

(***************************************************************************)
(* DependentEffect::resolve.  A resolution is the returned Result together *)
(* with the list of conditions handed to test_condition, in call order.    *)
(* The revision whose variants are named Fixed / Atomic / Aggregate /      *)
(* Disjoint has the same body, arm for arm.                                *)
(***************************************************************************)
Resolution(r, t) == [result |-> r, tested |-> t]

\* A Conditional arm that takes a failed test for "not matched".
resolve_conditional_swallow(eff, cexp, environment) ==
    LET matched == test_condition(environment, cexp)
    IN  IF matched.tag = "Ok" /\ matched.val
        THEN Resolution(Ok(eff), <<cexp>>)
        ELSE Resolution(Ok(SILENT), <<cexp>>)

\* Conditional(eff, cexp) => { let matched = test_condition(cexp)?; ... }
resolve_conditional(eff, cexp, environment) ==
    LET matched == test_condition(environment, cexp)
    IN  IF matched.tag = "Err" THEN Resolution(matched, <<cexp>>)
        ELSE IF matched.val THEN Resolution(Ok(eff), <<cexp>>)
        ELSE Resolution(Ok(SILENT), <<cexp>>)

\* A collect that drops a failed element and keeps the rest.
collect_skip_err(first, rest) ==
    IF first.result.tag = "Err" THEN Resolution(rest.result, first.tested \o rest.tested)
    ELSE IF rest.result.tag = "Err"
    THEN Resolution(rest.result, first.tested \o rest.tested)
    ELSE Resolution(Ok(<<first.result.val>> \o rest.result.val),
                    first.tested \o rest.tested)

\* Iterator::collect into Result<Vec<_>, _>: the first Err ends the iteration
\* (the remaining elements are never resolved); otherwise the Ok values in order.
collect(first, rest) ==
    IF first.result.tag = "Err" THEN first
    ELSE IF rest.result.tag = "Err"
    THEN Resolution(rest.result, first.tested \o rest.tested)
    ELSE Resolution(Ok(<<first.result.val>> \o rest.result.val),
                    first.tested \o rest.tested)

\* A composite arm that folds both node kinds with combine_strict.
resolve_composite_always_strict(kind, collected) ==
    IF collected.result.tag = "Err" THEN collected
    ELSE Resolution(Ok(combine_strict(collected.result.val)), collected.tested)

\* A composite arm that folds both node kinds with combine_non_strict.
resolve_composite_always_non_strict(kind, collected) ==
    IF collected.result.tag = "Err" THEN collected
    ELSE Resolution(Ok(combine_non_strict(collected.result.val)), collected.tested)

\* let resolved = resolved?; Ok(combine_non_strict(resolved)) for NonStrict,
\* Ok(combine_strict(resolved)) for Strict.
resolve_composite(kind, collected) ==
    IF collected.result.tag = "Err" THEN collected
    ELSE IF kind = "NonStrict"
    THEN Resolution(Ok(combine_non_strict(collected.result.val)), collected.tested)
    ELSE Resolution(Ok(combine_strict(collected.result.val)), collected.tested)

RECURSIVE resolve(_, _), resolve_each(_, _)

\* perms.iter().map(|p| p.resolve(environment)).collect()
resolve_each(perms, environment) ==
    IF perms = <<>> THEN Resolution(Ok(<<>>), <<>>)
    ELSE collect(resolve(Head(perms), environment),
                 resolve_each(Tail(perms), environment))

resolve(self, environment) ==
    IF self.kind = "Silent" THEN Resolution(Ok(SILENT), <<>>)
    ELSE IF self.kind = "Conditional"
    THEN resolve_conditional(self.eff, self.cexp, environment)
    ELSE IF self.kind = "Unconditional" THEN Resolution(Ok(self.eff), <<>>)
    ELSE resolve_composite(self.kind, resolve_each(self.children, environment))

(***************************************************************************)
(* Spec: resolve applied to every DependentEffect of at most MaxNodes      *)
(* nodes, in every environment.                                            *)
(***************************************************************************)
Leaves ==
    {Silent}
        \cup {Unconditional(e) : e \in Effect}
        \cup {Conditional(e, c) : e \in Effect, c \in CExp}

RECURSIVE TreesOfSize(_), ForestsOfSize(_)

\* Lists of trees with n nodes in total.
ForestsOfSize(n) ==
    IF n = 0 THEN {<<>>}
    ELSE UNION {{<<t>> \o f : t \in TreesOfSize(k), f \in ForestsOfSize(n - k)} :
                k \in 1..n}

\* Trees with exactly n nodes.
TreesOfSize(n) ==
    (IF n = 1 THEN Leaves ELSE {})
        \cup {NonStrict(f) : f \in ForestsOfSize(n - 1)}
        \cup {Strict(f) : f \in ForestsOfSize(n - 1)}

DependentEffects == UNION {TreesOfSize(n) : n \in 1..MaxNodes}

Init ==
    /\ tree \in DependentEffects
    /\ env \in Environments
    /\ resolved = NotResolved
    /\ batch = NotResolved
    /\ CombineIdle
    /\ PolicyIdle
    /\ AssertionIdle
    /\ MatcherIdle
    /\ TemplateIdle
    /\ EffectIdle

\* A resolve_all that answers for every element, an element that fails
\* counting as silent.
resolve_all_keep_going(perms, environment) ==
    Resolution(Ok([i \in 1..Len(perms) |->
                     LET r == resolve(perms[i], environment).result
                     IN  IF r.tag = "Ok" THEN r.val ELSE SILENT]),
               <<>>)

RECURSIVE resolve_all(_, _)
\* perms.map(|cexp| cexp.resolve(environment)).collect()
resolve_all(perms, environment) ==
    IF perms = <<>> THEN Resolution(Ok(<<>>), <<>>)
    ELSE collect(resolve(Head(perms), environment),
                 resolve_all(Tail(perms), environment))

Resolve ==
    /\ called # "none"
    /\ resolved = NotResolved
    /\ resolved' = resolve(tree, env)
    /\ UNCHANGED <<xs, ys, ns, st, tree, env, policies, subject, called>>
    /\ UNCHANGED <<batch, applicable, assertionVars, matcherVars, templateVars, effectVars>>

\* resolve_all(perms.iter(), &environment), the batch being the
\* DependentEffects listed under tree (none when tree is a leaf).
ResolveAll ==
    /\ called = "given"
    /\ batch = NotResolved
    /\ batch' = resolve_all(tree.children, env)
    /\ UNCHANGED <<xs, ys, ns, st, tree, env, resolved, policies, subject, called>>
    /\ UNCHANGED <<applicable, assertionVars, matcherVars, templateVars, effectVars>>

Next == Resolve \/ ResolveAll

Spec == Init /\ [][Next]_vars

IsResolved == resolved # NotResolved

\* Positions of the tested conditions whose evaluation failed.
FailedTests == {i \in 1..Len(resolved.tested) : env[resolved.tested[i]].tag = "Err"}

\* C3: if a condition that resolve evaluates fails, resolve returns Err with
\* that error, never Ok, whatever the nesting and the siblings are.
C3_FailFast ==
    IsResolved =>
        \A i \in FailedTests : resolved.result = env[resolved.tested[i]]

IsComposite(t) == t.kind \in {"NonStrict", "Strict"}

\* A failing Conditional nested two levels deep, between DENY siblings or
\* after one.
C3_Witness ==
    /\ IsResolved
    /\ IsComposite(tree)
    /\ Len(tree.children) >= 2
    /\ tree.children[1] = Unconditional(DENY)
    /\ IsComposite(tree.children[2])
    /\ Len(tree.children[2].children) = 1
    /\ tree.children[2].children[1].kind = "Conditional"
    /\ FailedTests # {}
    /\ resolved.result.tag = "Err"

\* C9: Silent resolves to Ok(SILENT) and Unconditional(e) to Ok(e) in every
\* environment; Conditional(e, c) resolves to Ok(e) when c tests true, to
\* Ok(SILENT) when it tests false and to the environment's Err when the test
\* fails.
C9_LeafResolution ==
    IsResolved =>
        /\ tree.kind = "Silent" => resolved.result = Ok(SILENT)
        /\ tree.kind = "Unconditional" => resolved.result = Ok(tree.eff)
        /\ tree.kind = "Conditional" =>
              /\ env[tree.cexp] = Ok(TRUE) => resolved.result = Ok(tree.eff)
              /\ env[tree.cexp] = Ok(FALSE) => resolved.result = Ok(SILENT)
              /\ env[tree.cexp].tag = "Err" => resolved.result = env[tree.cexp]

C9_Witness ==
    /\ IsResolved
    /\ tree.kind = "Conditional"
    /\ tree.eff = DENY
    /\ env[tree.cexp] = Err("e2")
    /\ resolved.result = Err("e2")

\* The children's own resolve results.
ChildResults == [i \in 1..Len(tree.children) |-> resolve(tree.children[i], env).result]
ChildValues == [i \in 1..Len(tree.children) |-> ChildResults[i].val]
AllChildrenOk == \A i \in 1..Len(tree.children) : ChildResults[i].tag = "Ok"

\* C10: NonStrict(cs) resolves to combine_non_strict, and Strict(cs) to
\* combine_strict, of the children's results when all are Ok; to Err when
\* some child resolves to Err; the empty list resolves to Ok(SILENT).
C10_CompositeIsFold ==
    (IsResolved /\ IsComposite(tree)) =>
        /\ (AllChildrenOk /\ tree.kind = "NonStrict") =>
              resolved.result = Ok(combine_non_strict(ChildValues))
        /\ (AllChildrenOk /\ tree.kind = "Strict") =>
              resolved.result = Ok(combine_strict(ChildValues))
        /\ ~AllChildrenOk => resolved.result.tag = "Err"
        /\ tree.children = <<>> => resolved.result = Ok(SILENT)

C10_Witness ==
    /\ IsResolved
    /\ tree.kind = "Strict"
    /\ Len(tree.children) = 2
    /\ tree.children[1].kind = "Conditional"
    /\ tree.children[2].kind = "NonStrict"
    /\ AllChildrenOk
    /\ ChildValues = <<ALLOW, SILENT>>
    /\ resolved.result = Ok(SILENT)

\* Element i of the batch resolved on its own.
BatchElement(i) == resolve(tree.children[i], env).result
BatchFailures == {i \in 1..Len(tree.children) : BatchElement(i).tag = "Err"}
FirstFailure == CHOOSE i \in BatchFailures : \A j \in BatchFailures : i <= j

\* C11: resolve_all over n DependentEffects returns, when every element
\* resolves Ok, Ok of a list of exactly n computed effects whose position i is
\* the result of resolving input i; when some element fails it returns Err
\* with the error of the first failing element in iteration order, and no
\* list.
C11_ResolveAll ==
    batch.result.tag # "None" =>
        IF BatchFailures = {}
        THEN /\ batch.result.tag = "Ok"
             /\ Len(batch.result.val) = Len(tree.children)
             /\ \A i \in 1..Len(tree.children) :
                    batch.result.val[i] = BatchElement(i).val
        ELSE /\ batch.result.tag = "Err"
             /\ batch.result.val = BatchElement(FirstFailure).val

\* A batch whose first element resolves and whose second and third fail with
\* different errors: resolve_all returned the second element's error.
C11_Witness ==
    /\ batch.result.tag = "Err"
    /\ Len(tree.children) = 3
    /\ BatchFailures = {2, 3}
    /\ BatchElement(2).val # BatchElement(3).val
    /\ batch.result.val = BatchElement(2).val

(***************************************************************************)
(* Policy<RMatch, AMatch, CExp> and its application to a subject.  The     *)
(* variants of the DependentEffect it builds are named Fixed, Atomic,      *)
(* Aggregate and Disjoint in that revision; they are the Unconditional,    *)
(* Conditional, NonStrict and Strict nodes above.                          *)
(***************************************************************************)
NoMatcher == "-"

UnconditionalPolicy(rmatch, amatch, eff) ==
    [kind |-> "Unconditional", rmatch |-> rmatch, amatch |-> amatch,
     eff |-> eff, cexp |-> NoCExp, children |-> <<>>]
ConditionalPolicy(rmatch, amatch, eff, cond) ==
    [kind |-> "Conditional", rmatch |-> rmatch, amatch |-> amatch,
     eff |-> eff, cexp |-> cond, children |-> <<>>]
Aggregate(ts) ==
    [kind |-> "Aggregate", rmatch |-> NoMatcher, amatch |-> NoMatcher,
     eff |-> NoEffect, cexp |-> NoCExp, children |-> ts]

\* Matcher::test of StrResource / StrAction: equality of the wrapped strings.
test(matcher, target) == matcher = target

RECURSIVE applies_any_child(_, _, _)
\* An applies whose Aggregate arm asks the children: true iff one of them
\* applies.
applies_any_child(self, resource, action) ==
    IF self.kind = "Aggregate"
    THEN \E i \in 1..Len(self.children) :
            applies_any_child(self.children[i], resource, action)
    ELSE test(self.rmatch, resource) /\ test(self.amatch, action)

\* An applies whose Aggregate arm is false.
applies_leaves_only(self, resource, action) ==
    /\ self.kind # "Aggregate"
    /\ test(self.rmatch, resource)
    /\ test(self.amatch, action)

\* Policy::applies: an Aggregate always applies.
applies(self, resource, action) ==
    IF self.kind = "Aggregate" THEN TRUE
    ELSE test(self.rmatch, resource) /\ test(self.amatch, action)

RECURSIVE apply(_, _, _)
apply(self, resource, action) ==
    IF applies(self, resource, action)
    THEN IF self.kind = "Conditional" THEN Conditional(self.eff, self.cexp)
         ELSE IF self.kind = "Unconditional" THEN Unconditional(self.eff)
         ELSE NonStrict([i \in 1..Len(self.children) |->
                            apply(self.children[i], resource, action)])
    ELSE Silent

\* An apply_disjoint that wraps the principals' results in the single-principal
\* (non-strict) node.
apply_disjoint_as_aggregate(ps, resource, action) ==
    NonStrict([i \in 1..Len(ps) |-> apply(ps[i], resource, action)])

apply_disjoint(ps, resource, action) ==
    Strict([i \in 1..Len(ps) |-> apply(ps[i], resource, action)])

(***************************************************************************)
(* SpecPolicy: policies are written statement by statement and grouped     *)
(* into Aggregates, at most MaxPolicyNodes nodes in total; the finished     *)
(* policies are then asked applies, and given to apply (a single policy)   *)
(* or apply_disjoint (the list of them) and resolved.                      *)
(***************************************************************************)
\* A leaf matches the subject, or misses it on the resource or on the action.
MatcherPairs == {<<"r", "a">>, <<"miss", "a">>, <<"r", "miss">>}

PolicyLeaves ==
    {UnconditionalPolicy(m[1], m[2], e) : m \in MatcherPairs, e \in Effect}
        \cup {ConditionalPolicy(m[1], m[2], e, c) :
                m \in MatcherPairs, e \in Effect, c \in CExp}

RECURSIVE PolicyNodes(_)
\* Number of nodes of a list of policies.
PolicyNodes(ps) ==
    IF ps = <<>> THEN 0
    ELSE 1 + PolicyNodes(Head(ps).children) + PolicyNodes(Tail(ps))

\* ReliableEnvironment seen through Environment: Ok of its answer, never Err.
ReliableEnvironments == [CExp -> {Ok(TRUE), Ok(FALSE)}]

\* FailingEnvironment(e): Err(e) on every call.
FailingEnvironment(e) == [c \in CExp |-> Err(e)]

PolicyEnvironments == ReliableEnvironments \cup {FailingEnvironment(e) : e \in Errors}

InitPolicy ==
    /\ policies = <<>>
    /\ subject = [resource |-> "r", action |-> "a"]
    /\ env = IdleEnv
    /\ tree = Silent
    /\ called = "none"
    /\ resolved = NotResolved
    /\ batch = NotResolved
    /\ applicable = NotAsked
    /\ CombineIdle
    /\ AssertionIdle
    /\ MatcherIdle
    /\ TemplateIdle
    /\ EffectIdle

\* Policy::Unconditional(..) / Policy::Conditional(..): one more statement.
AddStatement ==
    /\ called = "none"
    /\ applicable = NotAsked
    /\ PolicyNodes(policies) < MaxPolicyNodes
    /\ \E leaf \in PolicyLeaves : policies' = Append(policies, leaf)
    /\ UNCHANGED <<xs, ys, ns, st, tree, env, resolved, subject, called>>
    /\ UNCHANGED <<batch, applicable, assertionVars, matcherVars, templateVars, effectVars>>

\* Policy::Aggregate(vec![..]): the last k policies become the children of
\* one Aggregate (k = 0 gives the empty Aggregate).
GroupStatements ==
    /\ called = "none"
    /\ applicable = NotAsked
    /\ PolicyNodes(policies) < MaxPolicyNodes
    /\ \E k \in 0..Len(policies) :
          policies' = Append(SubSeq(policies, 1, Len(policies) - k),
                             Aggregate(SubSeq(policies, Len(policies) - k + 1,
                                              Len(policies))))
    /\ UNCHANGED <<xs, ys, ns, st, tree, env, resolved, subject, called>>
    /\ UNCHANGED <<batch, applicable, assertionVars, matcherVars, templateVars, effectVars>>

\* policy.applies(&resource, &action) on a single policy.
Applies ==
    /\ called = "none"
    /\ Len(policies) = 1
    /\ applicable = NotAsked
    /\ applicable' = Answer(applies(policies[1], subject.resource, subject.action))
    /\ UNCHANGED <<xs, ys, ns, st, tree, env, resolved, policies, subject, called>>
    /\ UNCHANGED <<batch, assertionVars, matcherVars, templateVars, effectVars>>

\* policy.apply(&resource, &action) on a single policy; the environment the
\* result will be resolved in is fixed here.
Apply ==
    /\ called = "none"
    /\ Len(policies) = 1
    /\ tree' = apply(policies[1], subject.resource, subject.action)
    /\ called' = "apply"
    /\ env' \in PolicyEnvironments
    /\ UNCHANGED <<xs, ys, ns, st, resolved, policies, subject>>
    /\ UNCHANGED <<batch, applicable, assertionVars, matcherVars, templateVars, effectVars>>

\* apply_disjoint(policies, &resource, &action): one policy per principal.
ApplyDisjoint ==
    /\ called = "none"
    /\ tree' = apply_disjoint(policies, subject.resource, subject.action)
    /\ called' = "apply_disjoint"
    /\ env' \in PolicyEnvironments
    /\ UNCHANGED <<xs, ys, ns, st, resolved, policies, subject>>
    /\ UNCHANGED <<batch, applicable, assertionVars, matcherVars, templateVars, effectVars>>

NextPolicy ==
    AddStatement \/ GroupStatements \/ Applies \/ Apply \/ ApplyDisjoint \/ Resolve

SpecPolicy == InitPolicy /\ [][NextPolicy]_vars

\* The policy tree holds, at some depth, an Unconditional DENY statement
\* whose matchers accept the subject.
RECURSIVE HasMatchingDeny(_)
HasMatchingDeny(p) ==
    IF p.kind = "Aggregate"
    THEN \E i \in 1..Len(p.children) : HasMatchingDeny(p.children[i])
    ELSE /\ p.kind = "Unconditional"
         /\ p.eff = DENY
         /\ p.rmatch = subject.resource
         /\ p.amatch = subject.action

\* The policy tree holds, at some depth, a matching ALLOW statement that is
\* unconditional or whose condition holds in env.
RECURSIVE HasMatchingAllow(_)
HasMatchingAllow(p) ==
    IF p.kind = "Aggregate"
    THEN \E i \in 1..Len(p.children) : HasMatchingAllow(p.children[i])
    ELSE /\ p.eff = ALLOW
         /\ p.rmatch = subject.resource
         /\ p.amatch = subject.action
         /\ p.kind = "Conditional" => env[p.cexp] = Ok(TRUE)

\* C4: a policy tree that holds a matching Unconditional DENY resolves, after
\* apply, to DENY whenever no condition evaluation fails, whatever matching
\* ALLOW statements it also holds.
C4_ExplicitDenyWins ==
    (/\ called = "apply"
     /\ IsResolved
     /\ FailedTests = {}
     /\ HasMatchingDeny(policies[1])) => resolved.result = Ok(DENY)

C4_Witness ==
    /\ called = "apply"
    /\ IsResolved
    /\ policies[1].kind = "Aggregate"
    /\ Len(policies[1].children) = 2
    /\ policies[1].children[1].kind = "Conditional"
    /\ HasMatchingAllow(policies[1].children[1])
    /\ HasMatchingDeny(policies[1].children[2])
    /\ resolved.result = Ok(DENY)

\* What principal i's policy resolves to on its own.
PrincipalResult(i) ==
    resolve(apply(policies[i], subject.resource, subject.action), env).result

\* C5: if one principal's policy resolves to SILENT, apply_disjoint resolves
\* to SILENT whenever no condition evaluation fails, even when another
\* principal's policy resolves to ALLOW or DENY.
C5_SilentPrincipalSilences ==
    (/\ called = "apply_disjoint"
     /\ IsResolved
     /\ FailedTests = {}
     /\ \E i \in 1..Len(policies) : PrincipalResult(i) = Ok(SILENT))
        => resolved.result = Ok(SILENT)

C5_Witness ==
    /\ called = "apply_disjoint"
    /\ IsResolved
    /\ Len(policies) = 2
    /\ PrincipalResult(1) = Ok(DENY)
    /\ policies[2].kind = "Aggregate"
    /\ PrincipalResult(2) = Ok(SILENT)
    /\ resolved.result = Ok(SILENT)

\* The statement's matchers accept the subject.
LeafMatches(p) ==
    test(p.rmatch, subject.resource) /\ test(p.amatch, subject.action)

RECURSIVE Mirrors(_, _)
\* The DependentEffect t has the shape of the policy p seen from the subject.
Mirrors(p, t) ==
    IF p.kind = "Aggregate"
    THEN /\ t.kind = "NonStrict"
         /\ Len(t.children) = Len(p.children)
         /\ \A i \in 1..Len(p.children) : Mirrors(p.children[i], t.children[i])
    ELSE IF ~LeafMatches(p) THEN t = Silent
    ELSE IF p.kind = "Unconditional" THEN t = Unconditional(p.eff)
    ELSE t = Conditional(p.eff, p.cexp)

\* C12: Policy::apply mirrors the policy tree: a leaf whose matchers reject
\* the subject yields Silent, a matching Unconditional yields the fixed
\* effect, a matching Conditional yields the effect with its condition
\* unchanged, and an Aggregate yields the aggregate of its children's results
\* in the same number and order, never Silent, whatever the environment the
\* result is later resolved in.
C12_ApplyMirrorsTree ==
    called = "apply" => Mirrors(policies[1], tree)

\* apply on an Aggregate that holds a statement missing the subject and a
\* matching conditional statement.
C12_Witness ==
    /\ called = "apply"
    /\ policies[1].kind = "Aggregate"
    /\ Len(policies[1].children) = 2
    /\ tree.children[1] = Silent
    /\ tree.children[2].kind = "Conditional"

\* C13 as stated: applies on an Aggregate is true iff at least one of its
\* children applies.
C13_AppliesIffAnyChild ==
    (applicable.asked /\ policies[1].kind = "Aggregate") =>
        (applicable.answer <=>
            \E i \in 1..Len(policies[1].children) :
                applies(policies[1].children[i], subject.resource, subject.action))

\* C13: applies on an Aggregate is true for every resource and action,
\* whatever its children: also when it has no children and when none of
\* them matches; on a leaf it is the conjunction of the two matchers.
C13_AggregateAlwaysApplies ==
    applicable.asked =>
        (applicable.answer <=>
            (policies[1].kind = "Aggregate" \/ LeafMatches(policies[1])))

\* applies answered true on an Aggregate none of whose two statements
\* matches the subject.
C13_Witness ==
    /\ applicable.asked
    /\ applicable.answer
    /\ policies[1].kind = "Aggregate"
    /\ Len(policies[1].children) = 2
    /\ \A i \in 1..2 :
          /\ policies[1].children[i].kind # "Aggregate"
          /\ ~LeafMatches(policies[1].children[i])

(***************************************************************************)
(* EqualityMatcher<T>, Assertion<RMatch, AMatch, CExp> and Policy<As>      *)
(* (crates/core): a policy is a flat list of assertions.                   *)
(***************************************************************************)
MaxAssertions == 3
MaxNones == 2

Resources == {"r", "r2"}
Actions == {"a", "a2"}

NoTarget == "-"
EqualityMatcher_Only(t) == [kind |-> "Only", only |-> t]
EqualityMatcher_Any == [kind |-> "Any", only |-> NoTarget]
EqualityMatcher_None == [kind |-> "None", only |-> NoTarget]

\* impl From<T> for EqualityMatcher<T>
EqualityMatcher_from(t) == EqualityMatcher_Only(t)

\* A test that takes every Only for a wildcard.
EqualityMatcher_test_only_is_any(self, t) == self.kind # "None"

\* impl Matcher for EqualityMatcher<T>
EqualityMatcher_test(self, t) ==
    IF self.kind = "Only" THEN self.only = t
    ELSE IF self.kind = "Any" THEN TRUE
    ELSE FALSE

\* impl ExtendedMatcher for EqualityMatcher<T>
match_only(t) == EqualityMatcher_from(t)
match_any == EqualityMatcher_Any
match_none == EqualityMatcher_None

EqualityMatchers(T) ==
    {EqualityMatcher_Only(t) : t \in T} \cup {EqualityMatcher_Any, EqualityMatcher_None}

AssertionUnconditional(rmatch, amatch, eff) ==
    [kind |-> "Unconditional", rmatch |-> rmatch, amatch |-> amatch,
     eff |-> eff, cexp |-> NoCExp]
AssertionConditional(rmatch, amatch, eff, condition) ==
    [kind |-> "Conditional", rmatch |-> rmatch, amatch |-> amatch,
     eff |-> eff, cexp |-> condition]

\* Environment::evaluate: the answer of an environment that cannot fail.
evaluate(environment, condition) == environment[condition].val

\* An applies that never asks the environment.
Assertion_applies_unconditionally(self, resource, action, environment) ==
    EqualityMatcher_test(self.rmatch, resource) /\ EqualityMatcher_test(self.amatch, action)

Assertion_applies(self, resource, action, environment) ==
    IF self.kind = "Unconditional"
    THEN EqualityMatcher_test(self.rmatch, resource) /\ EqualityMatcher_test(self.amatch, action)
    ELSE /\ EqualityMatcher_test(self.rmatch, resource)
         /\ EqualityMatcher_test(self.amatch, action)
         /\ evaluate(environment, self.cexp)

\* An applies_to_resource that also wants the action matcher to accept "a".
applies_to_resource_and_action(self, resource) ==
    EqualityMatcher_test(self.rmatch, resource) /\ EqualityMatcher_test(self.amatch, "a")

applies_to_resource(self, resource) == EqualityMatcher_test(self.rmatch, resource)

applies_to_action(self, action) == EqualityMatcher_test(self.amatch, action)

\* An applies_to_subject that looks at the resource only.
applies_to_subject_resource_only(self, resource, action) ==
    EqualityMatcher_test(self.rmatch, resource)

applies_to_subject(self, resource, action) ==
    EqualityMatcher_test(self.rmatch, resource) /\ EqualityMatcher_test(self.amatch, action)

Assertion_apply(self, resource, action, environment) ==
    IF Assertion_applies(self, resource, action, environment) THEN self.eff
    ELSE SILENT

SubjectUnconditional(eff) == [kind |-> "Unconditional", eff |-> eff, cexp |-> NoCExp]
SubjectConditional(eff, cexp) == [kind |-> "Conditional", eff |-> eff, cexp |-> cexp]

Some(item) == [some |-> TRUE, item |-> item]
NoItem == [some |-> FALSE, item |-> [kind |-> "-", eff |-> NoEffect, cexp |-> NoCExp]]

\* Policy::for_subject: the iterator starts on the whole list.
for_subject(self, resource, action) ==
    [resource |-> resource, action |-> action, source |-> self, live |-> TRUE]

\* A next that finds the first matching assertion but leaves the source where
\* it was.
next_without_consuming(self) ==
    LET hits == {i \in 1..Len(self.source) :
                    applies_to_subject(self.source[i], self.resource, self.action)}
        first == CHOOSE i \in hits : \A j \in hits : i <= j
        snext == self.source[first]
    IN  IF hits = {} THEN [item |-> NoItem, iter |-> self]
        ELSE [item |-> Some(IF snext.kind = "Conditional"
                            THEN SubjectConditional(snext.eff, snext.cexp)
                            ELSE SubjectUnconditional(snext.eff)),
              iter |-> self]

RECURSIVE next(_)
\* ForSubjectIter::next: the returned item and the iterator after the call.
\* self.source.next() takes the head of what is left of the slice; on the
\* empty slice it answers None and leaves it empty.
next(self) ==
    IF self.source = <<>> THEN [item |-> NoItem, iter |-> self]
    ELSE LET snext == Head(self.source)
             rest == [self EXCEPT !.source = Tail(self.source)]
         IN  IF applies_to_subject(snext, self.resource, self.action)
             THEN IF snext.kind = "Conditional"
                  THEN [item |-> Some(SubjectConditional(snext.eff, snext.cexp)),
                        iter |-> rest]
                  ELSE [item |-> Some(SubjectUnconditional(snext.eff)), iter |-> rest]
             ELSE next(rest)

(***************************************************************************)
(* SpecAssertion: the five predicates of one Assertion asked for a subject *)
(* in an environment that cannot fail.                                     *)
(***************************************************************************)
Assertions(RM, AM) ==
    {AssertionUnconditional(rm, am, e) : rm \in RM, am \in AM, e \in Effect}
        \cup {AssertionConditional(rm, am, e, c) :
                rm \in RM, am \in AM, e \in Effect, c \in CExp}

InitAssertion ==
    /\ \E a \in Assertions(EqualityMatchers(Resources), EqualityMatchers(Actions)) :
          assertions = <<a>>
    /\ subject \in [resource : Resources, action : Actions]
    /\ env \in ReliableEnvironments
    /\ verdict = NoAnswers
    /\ iter = NoIter
    /\ returned = <<>>
    /\ previous = NoRun
    /\ CombineIdle
    /\ tree = Silent
    /\ resolved = NotResolved
    /\ batch = NotResolved
    /\ policies = <<>>
    /\ called = "given"
    /\ applicable = NotAsked
    /\ MatcherIdle
    /\ TemplateIdle
    /\ EffectIdle

AssertionAsked == <<xs, ys, ns, st, tree, env, resolved, policies, subject, called,
                    batch, applicable, assertions, iter, returned, previous>>

CallApplies ==
    /\ ~verdict.applies.asked
    /\ verdict' = [verdict EXCEPT !.applies =
          Answer(Assertion_applies(assertions[1], subject.resource, subject.action, env))]
    /\ UNCHANGED <<AssertionAsked, matcherVars, templateVars, effectVars>>

CallApply ==
    /\ ~verdict.apply.asked
    /\ verdict' = [verdict EXCEPT !.apply =
          Answer(Assertion_apply(assertions[1], subject.resource, subject.action, env))]
    /\ UNCHANGED <<AssertionAsked, matcherVars, templateVars, effectVars>>

CallAppliesToResource ==
    /\ ~verdict.applies_to_resource.asked
    /\ verdict' = [verdict EXCEPT !.applies_to_resource =
          Answer(applies_to_resource(assertions[1], subject.resource))]
    /\ UNCHANGED <<AssertionAsked, matcherVars, templateVars, effectVars>>

CallAppliesToAction ==
    /\ ~verdict.applies_to_action.asked
    /\ verdict' = [verdict EXCEPT !.applies_to_action =
          Answer(applies_to_action(assertions[1], subject.action))]
    /\ UNCHANGED <<AssertionAsked, matcherVars, templateVars, effectVars>>

CallAppliesToSubject ==
    /\ ~verdict.applies_to_subject.asked
    /\ verdict' = [verdict EXCEPT !.applies_to_subject =
          Answer(applies_to_subject(assertions[1], subject.resource, subject.action))]
    /\ UNCHANGED <<AssertionAsked, matcherVars, templateVars, effectVars>>

NextAssertion ==
    \/ CallApplies
    \/ CallApply
    \/ CallAppliesToResource
    \/ CallAppliesToAction
    \/ CallAppliesToSubject

SpecAssertion == InitAssertion /\ [][NextAssertion]_vars

\* What the matcher m accepts, read off its variant.
Accepts(m, t) == m.kind = "Any" \/ (m.kind = "Only" /\ m.only = t)

BothAccept ==
    /\ Accepts(assertions[1].rmatch, subject.resource)
    /\ Accepts(assertions[1].amatch, subject.action)

\* C14: Assertion::applies is, for Unconditional, true iff both matchers
\* accept the subject, whatever the environment; for Conditional, true iff
\* both accept and the environment evaluates the condition to true.
\* Assertion::apply returns the effect when applies is true and SILENT
\* otherwise.
C14_AppliesAndApply ==
    LET a == assertions[1]
        expected == IF a.kind = "Unconditional" THEN BothAccept
                    ELSE BothAccept /\ env[a.cexp] = Ok(TRUE)
    IN  /\ verdict.applies.asked => (verdict.applies.answer <=> expected)
        /\ verdict.apply.asked =>
              verdict.apply.answer = (IF expected THEN a.eff ELSE SILENT)

\* A conditional assertion whose matchers accept the subject and whose
\* condition is false in the environment: applies answered false and apply
\* SILENT.
C14_Witness ==
    /\ assertions[1].kind = "Conditional"
    /\ BothAccept
    /\ env[assertions[1].cexp] = Ok(FALSE)
    /\ verdict.applies.asked /\ ~verdict.applies.answer
    /\ verdict.apply.asked /\ verdict.apply.answer = SILENT

\* C15: applies_to_resource is the resource matcher's answer and
\* applies_to_action the action matcher's answer, whatever the rest of the
\* assertion; applies_to_subject is their conjunction and never depends on
\* the condition or the environment.
C15_OneDimensionPredicates ==
    /\ verdict.applies_to_resource.asked =>
          (verdict.applies_to_resource.answer
              <=> Accepts(assertions[1].rmatch, subject.resource))
    /\ verdict.applies_to_action.asked =>
          (verdict.applies_to_action.answer
              <=> Accepts(assertions[1].amatch, subject.action))
    /\ verdict.applies_to_subject.asked => (verdict.applies_to_subject.answer <=> BothAccept)
    /\ (/\ verdict.applies_to_resource.asked
        /\ verdict.applies_to_action.asked
        /\ verdict.applies_to_subject.asked) =>
          (verdict.applies_to_subject.answer <=>
              (verdict.applies_to_resource.answer /\ verdict.applies_to_action.answer))

\* A conditional assertion whose condition is false and whose action matcher
\* rejects: applies_to_resource answered true, applies_to_action and
\* applies_to_subject false.
C15_Witness ==
    /\ assertions[1].kind = "Conditional"
    /\ env[assertions[1].cexp] = Ok(FALSE)
    /\ verdict.applies_to_resource.asked /\ verdict.applies_to_resource.answer
    /\ verdict.applies_to_action.asked /\ ~verdict.applies_to_action.answer
    /\ verdict.applies_to_subject.asked /\ ~verdict.applies_to_subject.answer

(***************************************************************************)
(* SpecForSubject: a Policy of at most MaxAssertions assertions is         *)
(* collected, for_subject is called and next is called on the iterator,    *)
(* up to MaxNones times beyond its end; once exhausted, for_subject may be *)
(* called a second time.                                                   *)
(***************************************************************************)
\* Matcher pairs as in test_for_subject (m_r, m_r2, m_a) and wildcards.
ListedMatchers ==
    {<<EqualityMatcher_from("r"), EqualityMatcher_from("a")>>,
     <<EqualityMatcher_from("r2"), EqualityMatcher_Any>>,
     <<EqualityMatcher_Any, EqualityMatcher_from("a2")>>}

ListedAssertions ==
    {AssertionUnconditional(m[1], m[2], e) : m \in ListedMatchers, e \in Effect}
        \cup {AssertionConditional(m[1], m[2], ALLOW, "c1") : m \in ListedMatchers}
        \cup {AssertionConditional(m[1], m[2], DENY, "c2") : m \in ListedMatchers}

InitForSubject ==
    /\ AssertionIdle
    /\ CombineIdle
    /\ ResolveIdle
    /\ PolicyIdle
    /\ MatcherIdle
    /\ TemplateIdle
    /\ EffectIdle

\* The items among the returns, and whether the last return was None.
Yielded == SelectSeq(returned, LAMBDA x : x.some)
Nones == Len(returned) - Len(Yielded)
Exhausted == returned # <<>> /\ ~returned[Len(returned)].some

\* Policy::from_iter: one more assertion collected.
AddAssertion ==
    /\ ~iter.live
    /\ Len(assertions) < MaxAssertions
    /\ \E a \in ListedAssertions : assertions' = Append(assertions, a)
    /\ UNCHANGED <<iter, returned, previous, verdict>>
    /\ UNCHANGED <<decisionVars, matcherVars, templateVars, effectVars>>

\* policy.for_subject(&resource, &action)
ForSubject ==
    /\ ~iter.live
    /\ \E r \in Resources, a \in Actions : iter' = for_subject(assertions, r, a)
    /\ UNCHANGED <<assertions, returned, previous, verdict>>
    /\ UNCHANGED <<decisionVars, matcherVars, templateVars, effectVars>>

\* iter.next()
NextItem ==
    /\ iter.live
    /\ Nones < MaxNones
    /\ iter' = next(iter).iter
    /\ returned' = Append(returned, next(iter).item)
    /\ UNCHANGED <<assertions, previous, verdict>>
    /\ UNCHANGED <<decisionVars, matcherVars, templateVars, effectVars>>

\* policy.for_subject(&resource, &action) once more, after the first
\* iterator has returned None.
ForSubjectAgain ==
    /\ iter.live
    /\ Exhausted
    /\ ~previous.ran
    /\ previous' = [resource |-> iter.resource, action |-> iter.action,
                    items |-> Yielded, ran |-> TRUE]
    /\ \E r \in Resources, a \in Actions : iter' = for_subject(assertions, r, a)
    /\ returned' = <<>>
    /\ UNCHANGED <<assertions, verdict>>
    /\ UNCHANGED <<decisionVars, matcherVars, templateVars, effectVars>>

NextForSubject == AddAssertion \/ ForSubject \/ NextItem \/ ForSubjectAgain

SpecForSubject == InitForSubject /\ [][NextForSubject]_vars

\* The SubjectAssertion an assertion is seen as.
Projection(a) ==
    IF a.kind = "Conditional" THEN SubjectConditional(a.eff, a.cexp)
    ELSE SubjectUnconditional(a.eff)

\* The positions of the assertions whose two matchers accept the subject.
Matching(r, a) ==
    {i \in 1..Len(assertions) :
        Accepts(assertions[i].rmatch, r) /\ Accepts(assertions[i].amatch, a)}

SubjectAssertions ==
    {SubjectUnconditional(e) : e \in Effect}
        \cup {SubjectConditional(e, c) : e \in Effect, c \in CExp}

TimesYielded(x) == Cardinality({i \in 1..Len(Yielded) : Yielded[i].item = x})
TimesMatching(x) ==
    Cardinality({i \in Matching(iter.resource, iter.action) :
                    Projection(assertions[i]) = x})

\* C16: the items for_subject yields are, as a multiset, the projections
\* of the assertions whose resource matcher accepts R and whose action
\* matcher accepts A, conditions unchanged and never evaluated: nothing else
\* is yielded at any point, and nothing is missing once the iterator has
\* returned None.
C16_ForSubjectExact ==
    iter.live =>
        \A x \in SubjectAssertions :
            /\ TimesYielded(x) <= TimesMatching(x)
            /\ Exhausted => TimesYielded(x) = TimesMatching(x)

\* A policy of three assertions, the first and third matching with the same
\* conditional projection and the second missing the subject, iterated to
\* the end: the projection was yielded twice.
C16_Witness ==
    /\ iter.live
    /\ Exhausted
    /\ Len(assertions) = 3
    /\ Matching(iter.resource, iter.action) = {1, 3}
    /\ assertions[1].kind = "Conditional"
    /\ Projection(assertions[1]) = Projection(assertions[3])
    /\ assertions[1] # assertions[3]
    /\ TimesYielded(Projection(assertions[1])) = 2

IsPrefix(p, q) == Len(p) <= Len(q) /\ p = SubSeq(q, 1, Len(p))
IsSuffix(p, q) == Len(p) <= Len(q) /\ p = SubSeq(q, Len(q) - Len(p) + 1, Len(q))

\* C17: next yields at most n items for a policy of n assertions and then
\* returns None, at the latest on call n + 1, and None again on every later
\* call; the iterator walks the policy itself, which stays as it was; and
\* for_subject called again with the same subject yields the same sequence.
C17_FiniteAndRestartable ==
    /\ iter.live =>
          /\ Len(Yielded) <= Len(assertions)
          /\ Len(returned) > Len(assertions) => Exhausted
          /\ IsSuffix(iter.source, assertions)
    /\ \A i, j \in 1..Len(returned) : (i < j /\ ~returned[i].some) => ~returned[j].some
    /\ (/\ previous.ran
        /\ previous.resource = iter.resource
        /\ previous.action = iter.action) =>
          /\ IsPrefix(Yielded, previous.items)
          /\ Exhausted => Yielded = previous.items

\* A second iterator for the same subject, run to the end and called once
\* more: it yielded the two items of the first one and then None twice.
C17_Witness ==
    /\ previous.ran
    /\ previous.resource = iter.resource
    /\ previous.action = iter.action
    /\ Len(previous.items) = 2
    /\ Len(assertions) = 3
    /\ Nones = 2
    /\ Yielded = previous.items

(***************************************************************************)
(* PolicyTemplate<RMatchTpl, AMatch, CExp> and Template::apply             *)
(* (crates/core/src/policy_template.rs).  The generated policy is built    *)
(* from Policy::Unconditional, Policy::Conditional and Policy::Combined.   *)
(***************************************************************************)
MaxTemplateNodes == 4

\* The resource-matcher template of the tests and the matcher it generates:
\* RMatchTpl.apply(p) = RMatch(p).
RMatchTpl == "RMatchTpl"
RMatch(p) == "RMatch(" \o p \o ")"
RMatchTpl_apply(self, p) == RMatch(p)

NoTemplate == "-"

TemplateUnconditional(rmtpl, am, eff) ==
    [kind |-> "Unconditional", rmtpl |-> rmtpl, amatch |-> am,
     eff |-> eff, cexp |-> NoCExp, children |-> <<>>]
TemplateConditional(rmtpl, am, eff, cond) ==
    [kind |-> "Conditional", rmtpl |-> rmtpl, amatch |-> am,
     eff |-> eff, cexp |-> cond, children |-> <<>>]
TemplateAggregate(elems) ==
    [kind |-> "Aggregate", rmtpl |-> NoTemplate, amatch |-> NoMatcher,
     eff |-> NoEffect, cexp |-> NoCExp, children |-> elems]

Combined(policy) ==
    [kind |-> "Combined", rmatch |-> NoMatcher, amatch |-> NoMatcher,
     eff |-> NoEffect, cexp |-> NoCExp, children |-> policy]

RECURSIVE PolicyTemplate_apply_reversed(_, _)
\* An apply that collects the elements of an Aggregate back to front.
PolicyTemplate_apply_reversed(self, p) ==
    IF self.kind = "Aggregate"
    THEN Combined([i \in 1..Len(self.children) |->
            PolicyTemplate_apply_reversed(
                self.children[Len(self.children) + 1 - i], p)])
    ELSE IF self.kind = "Unconditional"
    THEN UnconditionalPolicy(RMatchTpl_apply(self.rmtpl, p), self.amatch, self.eff)
    ELSE ConditionalPolicy(RMatchTpl_apply(self.rmtpl, p), self.amatch, self.eff,
                           self.cexp)

RECURSIVE PolicyTemplate_apply(_, _)
PolicyTemplate_apply(self, p) ==
    IF self.kind = "Aggregate"
    THEN Combined([i \in 1..Len(self.children) |->
                      PolicyTemplate_apply(self.children[i], p)])
    ELSE IF self.kind = "Unconditional"
    THEN UnconditionalPolicy(RMatchTpl_apply(self.rmtpl, p), self.amatch, self.eff)
    ELSE ConditionalPolicy(RMatchTpl_apply(self.rmtpl, p), self.amatch, self.eff,
                           self.cexp)

(***************************************************************************)
(* SpecTemplate: templates are written leaf by leaf and grouped into       *)
(* Aggregates, at most MaxTemplateNodes nodes in total; a single template  *)
(* is then applied to a parameter.                                         *)
(***************************************************************************)
Params == {"param", "other"}
AMatches == {"a1", "a2"}

TemplateLeaves ==
    {TemplateUnconditional(RMatchTpl, am, e) : am \in AMatches, e \in Effect}
        \cup {TemplateConditional(RMatchTpl, am, e, c) :
                am \in AMatches, e \in Effect, c \in CExp}

InitTemplate ==
    /\ TemplateIdle
    /\ EffectIdle
    /\ CombineIdle
    /\ ResolveIdle
    /\ PolicyIdle
    /\ AssertionIdle
    /\ MatcherIdle

\* PolicyTemplate::Unconditional(..) / PolicyTemplate::Conditional(..)
AddTemplate ==
    /\ generated = <<>>
    /\ PolicyNodes(templates) < MaxTemplateNodes
    /\ \E leaf \in TemplateLeaves : templates' = Append(templates, leaf)
    /\ UNCHANGED <<param, generated>>
    /\ UNCHANGED <<decisionVars, assertionVars, matcherVars, effectVars>>

\* PolicyTemplate::Aggregate(vec![..]): the last k templates become the
\* elements of one Aggregate (k = 0 gives the empty Aggregate).
GroupTemplates ==
    /\ generated = <<>>
    /\ PolicyNodes(templates) < MaxTemplateNodes
    /\ \E k \in 0..Len(templates) :
          templates' = Append(SubSeq(templates, 1, Len(templates) - k),
                              TemplateAggregate(SubSeq(templates, Len(templates) - k + 1,
                                                       Len(templates))))
    /\ UNCHANGED <<param, generated>>
    /\ UNCHANGED <<decisionVars, assertionVars, matcherVars, effectVars>>

\* template.apply(&p)
ApplyTemplate ==
    /\ generated = <<>>
    /\ Len(templates) = 1
    /\ \E p \in Params :
          /\ param' = p
          /\ generated' = <<PolicyTemplate_apply(templates[1], p)>>
    /\ UNCHANGED templates
    /\ UNCHANGED <<decisionVars, assertionVars, matcherVars, effectVars>>

NextTemplate == AddTemplate \/ GroupTemplates \/ ApplyTemplate

SpecTemplate == InitTemplate /\ [][NextTemplate]_vars

RECURSIVE GeneratedFrom(_, _, _)
\* The policy g is the template t with every resource-matcher template
\* applied to p and everything else in place.
GeneratedFrom(t, g, p) ==
    IF t.kind = "Aggregate"
    THEN /\ g.kind = "Combined"
         /\ Len(g.children) = Len(t.children)
         /\ \A i \in 1..Len(t.children) : GeneratedFrom(t.children[i], g.children[i], p)
    ELSE /\ g.kind = t.kind
         /\ g.children = <<>>
         /\ g.rmatch = RMatch(p)
         /\ g.amatch = t.amatch
         /\ g.eff = t.eff
         /\ g.cexp = t.cexp

RECURSIVE WithoutResourceMatchers(_)
\* A policy with its resource matchers blanked.
WithoutResourceMatchers(g) ==
    [g EXCEPT !.rmatch = NoMatcher,
              !.children = [i \in 1..Len(g.children) |->
                               WithoutResourceMatchers(g.children[i])]]

\* C18: PolicyTemplate::apply(p) maps the template tree onto a policy tree
\* of the same shape: an Aggregate becomes a compound policy of its
\* elements' results, same number and order at every depth (none for an
\* empty Aggregate); a leaf keeps its variant, action matcher, effect and
\* condition and gets the resource matcher its template generates from p,
\* so another parameter changes the resource matchers and nothing else.
C18_TemplateApply ==
    generated # <<>> =>
        /\ GeneratedFrom(templates[1], generated[1], param)
        /\ \A q \in Params :
              WithoutResourceMatchers(PolicyTemplate_apply(templates[1], q))
                  = WithoutResourceMatchers(generated[1])

\* An Aggregate of an empty Aggregate and a conditional leaf, applied: the
\* compound policy holds an empty compound policy and the generated leaf, in
\* that order.
C18_Witness ==
    /\ generated # <<>>
    /\ templates[1].kind = "Aggregate"
    /\ Len(templates[1].children) = 2
    /\ templates[1].children[1] = TemplateAggregate(<<>>)
    /\ templates[1].children[2].kind = "Conditional"
    /\ generated[1].kind = "Combined"
    /\ generated[1].children[1] = Combined(<<>>)
    /\ generated[1].children[2].cexp = templates[1].children[2].cexp
    /\ generated[1].children[2].rmatch = RMatch(param)

(***************************************************************************)
(* SpecEquality: an EqualityMatcher is built by one of its constructors    *)
(* from a value x and tested on a value y.                                 *)
(***************************************************************************)
Targets == Resources \cup Actions

InitEquality ==
    /\ \E x \in Targets, y \in Targets : probe = [NoProbe EXCEPT !.x = x, !.y = y]
    /\ path = <<>>
    /\ tpath = <<>>
    /\ pmatcher = NoPathMatcher
    /\ accepted = NotAsked
    /\ CombineIdle
    /\ ResolveIdle
    /\ PolicyIdle
    /\ AssertionIdle
    /\ TemplateIdle
    /\ EffectIdle

\* StrMatcher::match_only(x)
MatchOnly ==
    /\ probe.built = "-"
    /\ probe' = [probe EXCEPT !.built = "match_only", !.matcher = match_only(probe.x)]
    /\ UNCHANGED <<path, tpath, pmatcher, accepted>>
    /\ UNCHANGED <<decisionVars, assertionVars, templateVars, effectVars>>

\* StrMatcher::match_any()
MatchAny ==
    /\ probe.built = "-"
    /\ probe' = [probe EXCEPT !.built = "match_any", !.matcher = match_any]
    /\ UNCHANGED <<path, tpath, pmatcher, accepted>>
    /\ UNCHANGED <<decisionVars, assertionVars, templateVars, effectVars>>

\* StrMatcher::match_none()
MatchNone ==
    /\ probe.built = "-"
    /\ probe' = [probe EXCEPT !.built = "match_none", !.matcher = match_none]
    /\ UNCHANGED <<path, tpath, pmatcher, accepted>>
    /\ UNCHANGED <<decisionVars, assertionVars, templateVars, effectVars>>

\* let m: StrMatcher = x.into()
Into ==
    /\ probe.built = "-"
    /\ probe' = [probe EXCEPT !.built = "into", !.matcher = EqualityMatcher_from(probe.x)]
    /\ UNCHANGED <<path, tpath, pmatcher, accepted>>
    /\ UNCHANGED <<decisionVars, assertionVars, templateVars, effectVars>>

\* m.test(&y)
TestEquality ==
    /\ probe.built # "-"
    /\ ~probe.result.asked
    /\ probe' = [probe EXCEPT !.result = Answer(EqualityMatcher_test(probe.matcher, probe.y))]
    /\ UNCHANGED <<path, tpath, pmatcher, accepted>>
    /\ UNCHANGED <<decisionVars, assertionVars, templateVars, effectVars>>

NextEquality == MatchOnly \/ MatchAny \/ MatchNone \/ Into \/ TestEquality

SpecEquality == InitEquality /\ [][NextEquality]_vars

\* C19: match_only(x) accepts x and rejects every y other than x, match_any
\* accepts every y, match_none rejects every y, and the matcher obtained
\* from x by into accepts exactly what match_only(x) accepts.
C19_EqualityMatcherLaws ==
    probe.result.asked =>
        /\ probe.built = "match_only" => (probe.result.answer <=> probe.y = probe.x)
        /\ probe.built = "match_any" => probe.result.answer
        /\ probe.built = "match_none" => ~probe.result.answer
        /\ probe.built = "into" =>
              /\ probe.result.answer <=> probe.y = probe.x
              /\ probe.matcher = match_only(probe.x)

\* match_only(x) tested on another value: rejected.
C19_Witness ==
    /\ probe.built = "match_only"
    /\ probe.x # probe.y
    /\ probe.result.asked
    /\ ~probe.result.answer

(***************************************************************************)
(* Path, PathElemMatcher and PathMatcher (src/src/path.rs).                *)
(***************************************************************************)
MaxPathLen == 3

PathElems == {"a", "z"}

ANY == [kind |-> "ANY", v |-> "-"]
NONE == [kind |-> "NONE", v |-> "-"]
V(s) == [kind |-> "V", v |-> s]

PathElemMatcher_new(v) == V(v)

\* impl From<PathElem> for PathElemMatcher
PathElemMatcher_from(elem) == PathElemMatcher_new(elem)

\* A PathElemMatcher whose NONE accepts.
PathElemMatcher_test_none_accepts(self, elem) ==
    self.kind # "V" \/ self.v = elem

\* impl Matcher for PathElemMatcher
PathElemMatcher_test(self, elem) ==
    IF self.kind = "ANY" THEN TRUE
    ELSE IF self.kind = "NONE" THEN FALSE
    ELSE self.v = elem

\* PathMatcher::new(elems)
PathMatcher_new(elems) == elems

\* impl From<Path> for PathMatcher
PathMatcher_from(p) == [i \in 1..Len(p) |-> PathElemMatcher_from(p[i])]

\* Iterator::zip: the pairs up to the end of the shorter side.
zip(ms, es) ==
    [i \in 1..(IF Len(ms) <= Len(es) THEN Len(ms) ELSE Len(es)) |-> <<ms[i], es[i]>>]

\* A test that looks at the first pair only.
PathMatcher_test_first_only(self, tp) ==
    \A i \in 1..Len(zip(self, tp)) :
        i > 1 \/ PathElemMatcher_test(zip(self, tp)[i][1], zip(self, tp)[i][2])

\* impl Matcher for PathMatcher
PathMatcher_test(self, tp) ==
    \A i \in 1..Len(zip(self, tp)) :
        PathElemMatcher_test(zip(self, tp)[i][1], zip(self, tp)[i][2])

(***************************************************************************)
(* SpecPath: a PathMatcher, written element by element or converted from a *)
(* Path of at most MaxPathLen elements, is tested on a Path.               *)
(***************************************************************************)
Paths == SeqsUpTo(PathElems, MaxPathLen)
PathElemMatchers == {ANY, NONE} \cup {V(s) : s \in PathElems}
PathMatchers == SeqsUpTo(PathElemMatchers, MaxPathLen)

InitPath ==
    /\ path \in Paths
    /\ tpath \in Paths
    /\ pmatcher = NoPathMatcher
    /\ accepted = NotAsked
    /\ probe = NoProbe
    /\ CombineIdle
    /\ ResolveIdle
    /\ PolicyIdle
    /\ AssertionIdle
    /\ TemplateIdle
    /\ EffectIdle

\* PathMatcher::new(vec![..])
NewPathMatcher ==
    /\ pmatcher.built = "-"
    /\ \E ms \in PathMatchers :
          pmatcher' = [built |-> "new", elems |-> PathMatcher_new(ms)]
    /\ UNCHANGED <<probe, path, tpath, accepted>>
    /\ UNCHANGED <<decisionVars, assertionVars, templateVars, effectVars>>

\* let matcher: PathMatcher = path.clone().into()
PathIntoMatcher ==
    /\ pmatcher.built = "-"
    /\ pmatcher' = [built |-> "into", elems |-> PathMatcher_from(path)]
    /\ UNCHANGED <<probe, path, tpath, accepted>>
    /\ UNCHANGED <<decisionVars, assertionVars, templateVars, effectVars>>

\* matcher.test(&tpath)
TestPath ==
    /\ pmatcher.built # "-"
    /\ ~accepted.asked
    /\ accepted' = Answer(PathMatcher_test(pmatcher.elems, tpath))
    /\ UNCHANGED <<probe, path, tpath, pmatcher>>
    /\ UNCHANGED <<decisionVars, assertionVars, templateVars, effectVars>>

NextPath == NewPathMatcher \/ PathIntoMatcher \/ TestPath

SpecPath == InitPath /\ [][NextPath]_vars

\* What an element-matcher accepts, read off its variant.
ElemAccepts(m, e) == m.kind = "ANY" \/ (m.kind = "V" /\ m.v = e)

\* The positions at which both the matcher and the path have an element.
PairedPositions == {i \in 1..Len(pmatcher.elems) : i <= Len(tpath)}

C20_LongerMatcherAccepts ==
    /\ accepted.asked
    /\ accepted.answer
    /\ Len(pmatcher.elems) > Len(tpath)
    /\ Len(tpath) > 0
    /\ pmatcher.elems[Len(pmatcher.elems)] = NONE

(***************************************************************************)
(* SpecRepeat: resolve called up to MaxResolves times on one               *)
(* DependentEffect of at most MaxRepeatNodes nodes, each call against a    *)
(* reliable or a failing environment.                                      *)
(***************************************************************************)
MaxRepeatNodes == 3
MaxResolves == 2

\* PositiveEnvironment::reliably_test_condition: true.
PositiveEnvironment_reliably_test_condition(exp) == TRUE

\* NegativeEnvironment::reliably_test_condition: false.
NegativeEnvironment_reliably_test_condition(exp) == FALSE

\* impl Environment for T: ReliableEnvironment wraps the reliable answer in Ok.
PositiveEnvironment == [c \in CExp |-> Ok(PositiveEnvironment_reliably_test_condition(c))]
NegativeEnvironment == [c \in CExp |-> Ok(NegativeEnvironment_reliably_test_condition(c))]

RepeatTrees == UNION {TreesOfSize(n) : n \in 1..MaxRepeatNodes}

InitRepeat ==
    /\ tree \in RepeatTrees
    /\ env = IdleEnv
    /\ resolved = NotResolved
    /\ batch = NotResolved
    /\ history = <<>>
    /\ authz = NoAuthorized
    /\ stack = <<>>
    /\ answer = NoEval
    /\ CombineIdle
    /\ PolicyIdle
    /\ AssertionIdle
    /\ MatcherIdle
    /\ TemplateIdle

\* The answers the environment gave to the conditions resolve tested.
Answers(environment, tested) ==
    [j \in 1..Len(tested) |-> test_condition(environment, tested[j])]

\* A resolve that takes the effect by value and leaves Silent behind.
ResolveTaking ==
    /\ Len(history) < MaxResolves
    /\ \E e \in PolicyEnvironments :
          /\ env' = e
          /\ history' = Append(history, [env |-> e, result |-> resolve(tree, e),
                                         answers |-> <<>>])
    /\ tree' = Silent
    /\ UNCHANGED <<xs, ys, ns, st, resolved, policies, subject, called, batch, applicable>>
    /\ UNCHANGED <<assertionVars, matcherVars, templateVars, authz, stack, answer>>

\* self.resolve(&environment): self is borrowed, the result is recorded.
ResolveWith ==
    /\ Len(history) < MaxResolves
    /\ \E e \in PolicyEnvironments :
          /\ env' = e
          /\ history' = Append(history,
                               [env     |-> e,
                                result  |-> resolve(tree, e),
                                answers |-> Answers(e, resolve(tree, e).tested)])
    /\ UNCHANGED <<xs, ys, ns, st, tree, resolved, policies, subject, called, batch>>
    /\ UNCHANGED <<applicable, assertionVars, matcherVars, templateVars>>
    /\ UNCHANGED <<authz, stack, answer>>

NextRepeat == ResolveWith

SpecRepeat == InitRepeat /\ [][NextRepeat]_vars

\* The conditions of the Conditional nodes of t, depth first, left to right.
RECURSIVE Conditions(_), ConditionsOfAll(_)
ConditionsOfAll(ts) ==
    IF ts = <<>> THEN <<>> ELSE Conditions(Head(ts)) \o ConditionsOfAll(Tail(ts))

Conditions(t) ==
    IF t.kind = "Conditional" THEN <<t.cexp>>
    ELSE IF IsComposite(t) THEN ConditionsOfAll(t.children)
    ELSE <<>>

HasConditional(t) == Conditions(t) # <<>>

\* Two environments that answer every condition of t the same way.
SameAnswers(t, e1, e2) ==
    \A j \in 1..Len(Conditions(t)) : e1[Conditions(t)[j]] = e2[Conditions(t)[j]]

C23_StockEnvironments ==
    \A i \in 1..Len(history) :
        LET h == history[i]
        IN  /\ h.env = PositiveEnvironment =>
                  /\ \A j \in 1..Len(h.answers) : h.answers[j] = Ok(TRUE)
                  /\ h.result.result.tag = "Ok"
            /\ h.env = NegativeEnvironment =>
                  /\ \A j \in 1..Len(h.answers) : h.answers[j] = Ok(FALSE)
                  /\ h.result.result.tag = "Ok"
            /\ h.env \in ReliableEnvironments =>
                  /\ \A j \in 1..Len(h.answers) : h.answers[j].tag = "Ok"
                  /\ h.result.result.tag = "Ok"
            /\ \A e \in Errors :
                  h.env = FailingEnvironment(e) =>
                      /\ \A j \in 1..Len(h.answers) : h.answers[j] = Err(e)
                      /\ (h.result.result = Err(e)) = HasConditional(tree)
                      /\ ~HasConditional(tree) => h.result.result.tag = "Ok"

\* A tree with a Conditional below a composite resolved first against
\* FailingEnvironment(e2), giving Err(e2), then against PositiveEnvironment.
C23_Witness ==
    /\ Len(history) = 2
    /\ IsComposite(tree)
    /\ Len(tree.children) = 2
    /\ tree.children[1] = Unconditional(DENY)
    /\ tree.children[2].kind = "Conditional"
    /\ history[1].env = FailingEnvironment("e2")
    /\ history[1].result.result = Err("e2")
    /\ history[1].answers = <<Err("e2")>>
    /\ history[2].env = PositiveEnvironment
    /\ history[2].answers = <<Ok(TRUE)>>
    /\ history[2].result.result = Ok(DENY)

(***************************************************************************)
(* Spec: the order of the tests, nested NonStrict groups, and a deny that  *)
(* stands.                                                                  *)
(***************************************************************************)
\* Positions in the depth-first list of conditions whose test fails in env.
FailingPositions(t) ==
    {j \in 1..Len(Conditions(t)) : env[Conditions(t)[j]].tag = "Err"}

FirstFailing(t) ==
    CHOOSE j \in FailingPositions(t) : \A k \in FailingPositions(t) : j <= k

\* C24: the conditions resolve hands to test_condition are, in call order, a
\* prefix of the depth-first, left-to-right list of the tree's Conditional
\* conditions.  When no test fails it is the whole list, one test per
\* Conditional node, a DENY or SILENT met on the way notwithstanding; when a
\* test fails it ends at the first failing condition of that list and the
\* result is that condition's error.
C24_TestOrder ==
    IsResolved =>
        /\ IsPrefix(resolved.tested, Conditions(tree))
        /\ FailingPositions(tree) = {} =>
              /\ resolved.tested = Conditions(tree)
              /\ resolved.result.tag = "Ok"
        /\ FailingPositions(tree) # {} =>
              /\ resolved.tested = SubSeq(Conditions(tree), 1, FirstFailing(tree))
              /\ resolved.result = env[Conditions(tree)[FirstFailing(tree)]]

\* Three Conditionals: the first gives DENY, the second fails and the third
\* is never tested.
C24_Witness ==
    /\ IsResolved
    /\ tree.kind = "NonStrict"
    /\ Len(tree.children) = 3
    /\ tree.children[1] = Conditional(DENY, "c2")
    /\ tree.children[2] = Conditional(ALLOW, "c1")
    /\ tree.children[3] = Conditional(ALLOW, "c2")
    /\ env["c2"] = Ok(TRUE)
    /\ env["c1"] = Err("e1")
    /\ resolved.tested = <<"c2", "c1">>
    /\ resolved.result = Err("e1")

RECURSIVE HasStrict(_)
HasStrict(t) ==
    \/ t.kind = "Strict"
    \/ \E i \in 1..Len(t.children) : HasStrict(t.children[i])

\* The leaves of t, depth first, left to right.
RECURSIVE LeavesOf(_), LeavesOfAll(_)
LeavesOfAll(ts) ==
    IF ts = <<>> THEN <<>> ELSE LeavesOf(Head(ts)) \o LeavesOfAll(Tail(ts))

LeavesOf(t) ==
    IF IsComposite(t) THEN LeavesOfAll(t.children) ELSE <<t>>

\* C25: a tree of Silent, Unconditional, Conditional and NonStrict nodes
\* resolves, in every environment, to what the flat NonStrict node listing
\* its leaves depth first resolves to: the same Ok value or the same Err.
\* An empty nested NonStrict group contributes nothing.
C25_NonStrictFlattening ==
    (IsResolved /\ ~HasStrict(tree)) =>
        resolved.result = resolve(NonStrict(LeavesOf(tree)), env).result

\* An empty NonStrict group and one holding a Conditional, nested in a
\* NonStrict node.
C25_Witness ==
    /\ IsResolved
    /\ tree.kind = "NonStrict"
    /\ Len(tree.children) = 2
    /\ tree.children[1] = NonStrict(<<>>)
    /\ tree.children[2] = NonStrict(<<Conditional(DENY, "c1")>>)
    /\ env["c1"] = Ok(TRUE)
    /\ resolved.result = Ok(DENY)

\* effs with e inserted after its first i elements.
Inserted(effs, i, e) == SubSeq(effs, 1, i) \o <<e>> \o SubSeq(effs, i + 1, Len(effs))

\* The effects that may be listed in addition: every leaf and the two empty
\* groups.
OneMore == TreesOfSize(1)

\* The decisions a denied principal may come to when one more effect is
\* listed: the deny, or a failed test.
DenyOrErr(r) == r = Ok(DENY) \/ r.tag = "Err"

\* C28: a deny stands.  When NonStrict(cs) resolves to Ok(DENY), NonStrict
\* of cs with one more effect listed last or first resolves to Ok(DENY) or
\* to Err, never to Ok(ALLOW) or Ok(SILENT); and combine_non_strict of the
\* children's values with one more value inserted anywhere is DENY.
C28_DenyStands ==
    (IsResolved /\ tree.kind = "NonStrict" /\ resolved.result = Ok(DENY)) =>
        /\ \A c \in OneMore :
              /\ DenyOrErr(resolve(NonStrict(Append(tree.children, c)), env).result)
              /\ DenyOrErr(resolve(NonStrict(<<c>> \o tree.children), env).result)
        /\ \A i \in 0..Len(ChildValues), e \in ComputedEffect :
              combine_non_strict(Inserted(ChildValues, i, e)) = DENY

\* A denied principal in an environment where one condition tests true and
\* the other fails, so that listing one more Conditional may grant or fail.
C28_Witness ==
    /\ IsResolved
    /\ tree.kind = "NonStrict"
    /\ Len(tree.children) = 2
    /\ tree.children[1] = Unconditional(DENY)
    /\ tree.children[2] = Conditional(ALLOW, "c1")
    /\ env["c1"] = Ok(TRUE)
    /\ env["c2"].tag = "Err"
    /\ resolved.result = Ok(DENY)

(***************************************************************************)
(* SpecPolicy: where the strict node occurs.                                *)
(***************************************************************************)
\* C26: apply_disjoint returns a Strict node whose children are the apply
\* results of the policies, one per policy and in their order; the result of
\* Policy::apply holds no Strict node at any depth, so the strict node is
\* found at the root of an apply_disjoint result and nowhere else.
C26_StrictOnlyAtRoot ==
    /\ called = "apply_disjoint" =>
          /\ tree.kind = "Strict"
          /\ Len(tree.children) = Len(policies)
          /\ \A i \in 1..Len(policies) :
                /\ tree.children[i] = apply(policies[i], subject.resource, subject.action)
                /\ Mirrors(policies[i], tree.children[i])
                /\ ~HasStrict(tree.children[i])
    /\ called = "apply" => ~HasStrict(tree)

\* apply_disjoint on two policies, the first an Aggregate holding a matching
\* statement, the second a matching conditional statement.
C26_Witness ==
    /\ called = "apply_disjoint"
    /\ Len(policies) = 2
    /\ policies[1].kind = "Aggregate"
    /\ tree.kind = "Strict"
    /\ tree.children[1].kind = "NonStrict"
    /\ Len(tree.children[1].children) = 1
    /\ tree.children[1].children[1].kind = "Unconditional"
    /\ tree.children[2].kind = "Conditional"

(***************************************************************************)
(* SpecPath: paths and matchers of different lengths.                       *)
(***************************************************************************)
\* C27: PathMatcher::test returns false for every path whose number of
\* elements differs from the matcher's number of element matchers, shorter
\* or longer, even when every element of the common prefix is accepted.
C27_LengthMismatchRejected ==
    (accepted.asked /\ Len(pmatcher.elems) # Len(tpath)) => ~accepted.answer

\* The matcher converted from a path of three elements accepted the path of
\* its first two elements, and so a path of a different length.
C27_Witness ==
    /\ accepted.asked
    /\ accepted.answer
    /\ pmatcher.built = "into"
    /\ Len(path) = 3
    /\ pmatcher.elems = PathMatcher_from(path)
    /\ tpath = SubSeq(path, 1, 2)

(***************************************************************************)
(* ComputedEffect2: a definite effect or a list of computed effects.        *)
(***************************************************************************)
MaxEffect2Nodes == 5

Definite(eff) == [kind |-> "Definite", eff |-> eff, children |-> <<>>]
Complex(ts) == [kind |-> "Complex", eff |-> NoEffect, children |-> ts]

SILENT2 == Complex(<<>>)
ALLOW2 == Definite(ALLOW)
DENY2 == Definite(DENY)

\* From<Effect> for ComputedEffect2.
ComputedEffect2_from(eff) == IF eff = ALLOW THEN ALLOW2 ELSE DENY2

\* A silent that looks at the list only: silent when it is empty.
ComputedEffect2_silent_shallow(self) ==
    self.kind = "Complex" /\ self.children = <<>>

RECURSIVE ComputedEffect2_silent(_)
\* Definite(_) => false, Complex(ts) => ts.iter().all(|t| t.silent())
ComputedEffect2_silent(self) ==
    IF self.kind = "Definite" THEN FALSE
    ELSE \A i \in 1..Len(self.children) : ComputedEffect2_silent(self.children[i])

RECURSIVE ComputedEffect2_authorized(_)
\* Definite(eff) => eff.authorized(),
\* Complex(ts) => ts.iter().any(|t| !t.silent())
\*                && !ts.iter().any(|t| !t.silent() && !t.authorized())
ComputedEffect2_authorized(self) ==
    IF self.kind = "Definite" THEN Effect_authorized(self.eff)
    ELSE /\ \E i \in 1..Len(self.children) : ~ComputedEffect2_silent(self.children[i])
         /\ ~\E i \in 1..Len(self.children) :
                /\ ~ComputedEffect2_silent(self.children[i])
                /\ ~ComputedEffect2_authorized(self.children[i])

(***************************************************************************)
(* SpecEffect2: ComputedEffect2 values of at most MaxEffect2Nodes nodes    *)
(* are built bottom up on the stack; the top one is then asked authorized  *)
(* and silent.                                                             *)
(***************************************************************************)
RECURSIVE Effect2Nodes(_)
Effect2Nodes(ts) ==
    IF ts = <<>> THEN 0
    ELSE 1 + Effect2Nodes(Head(ts).children) + Effect2Nodes(Tail(ts))

InitEffect2 ==
    /\ stack = <<>>
    /\ answer = NoEval
    /\ authz = NoAuthorized
    /\ history = <<>>
    /\ CombineIdle
    /\ ResolveIdle
    /\ PolicyIdle
    /\ AssertionIdle
    /\ MatcherIdle
    /\ TemplateIdle

\* Definite(eff), also reached through eff.into().
PushDefinite ==
    /\ answer = NoEval
    /\ Effect2Nodes(stack) < MaxEffect2Nodes
    /\ \E e \in Effect : stack' = Append(stack, ComputedEffect2_from(e))
    /\ UNCHANGED <<decisionVars, assertionVars, matcherVars, templateVars>>
    /\ UNCHANGED <<authz, history, answer>>

\* Complex(vec![..]) of the last k values built; SILENT2 when k = 0.
MakeComplex ==
    /\ answer = NoEval
    /\ Effect2Nodes(stack) < MaxEffect2Nodes
    /\ \E k \in 0..Len(stack) :
          stack' = Append(SubSeq(stack, 1, Len(stack) - k),
                          Complex(SubSeq(stack, Len(stack) - k + 1, Len(stack))))
    /\ UNCHANGED <<decisionVars, assertionVars, matcherVars, templateVars>>
    /\ UNCHANGED <<authz, history, answer>>

\* authorized() and silent() of the value built last.
AskEffect2 ==
    /\ answer = NoEval
    /\ stack # <<>>
    /\ answer' = [asked      |-> TRUE,
                  authorized |-> ComputedEffect2_authorized(stack[Len(stack)]),
                  silent     |-> ComputedEffect2_silent(stack[Len(stack)]),
                  eval       |-> "-"]
    /\ UNCHANGED <<decisionVars, assertionVars, matcherVars, templateVars>>
    /\ UNCHANGED <<authz, history, stack>>

NextEffect2 == PushDefinite \/ MakeComplex \/ AskEffect2

SpecEffect2 == InitEffect2 /\ [][NextEffect2]_vars

\* The effects of the Definite leaves of t, depth first, left to right.
RECURSIVE Definites(_), DefinitesOfAll(_)
DefinitesOfAll(ts) ==
    IF ts = <<>> THEN <<>> ELSE Definites(Head(ts)) \o DefinitesOfAll(Tail(ts))

Definites(t) ==
    IF t.kind = "Definite" THEN <<t.eff>> ELSE DefinitesOfAll(t.children)

Top == stack[Len(stack)]

\* C29: a ComputedEffect2 is silent iff it holds no Definite leaf at any
\* depth; it is authorized iff its Definite leaves, at any depth, include an
\* ALLOW and no DENY, that is iff combine_non_strict of the flattened leaves
\* is ALLOW; it is never both authorized and silent.
C29_Effect2MatchesNonStrict ==
    answer.asked =>
        /\ answer.silent = (Definites(Top) = <<>>)
        /\ answer.authorized = (Has(Definites(Top), ALLOW) /\ ~Has(Definites(Top), DENY))
        /\ answer.authorized = (combine_non_strict(Definites(Top)) = ALLOW)
        /\ ~(answer.authorized /\ answer.silent)

\* A list holding an empty list and a list holding ALLOW: neither empty nor
\* holding a Definite directly, authorized and not silent.
C29_Witness ==
    /\ answer.asked
    /\ Top = Complex(<<Complex(<<SILENT2>>), Complex(<<ALLOW2>>)>>)
    /\ answer.authorized
    /\ ~answer.silent

(***************************************************************************)
(* Node: a tree of computed effects joined by And and Or.                   *)
(***************************************************************************)
MaxTreeNodes == 5

Leaf(a) == [kind |-> "Leaf", val |-> a, children |-> <<>>]
And(l, r) == [kind |-> "And", val |-> NoEffect, children |-> <<l, r>>]
Or(l, r) == [kind |-> "Or", val |-> NoEffect, children |-> <<l, r>>]

\* From<A> for Node<A>.
Node_from(a) == Leaf(a)

\* self.and(other), self.or(other)
Node_and(self, other) == And(self, other)
Node_or(self, other) == Or(self, other)

\* An Or in which the left operand wins unless it is silent.
eval_or_left_wins(l, r) ==
    IF l = SILENT THEN r ELSE l

\* match (l.eval(), r.eval()) { (ALLOW, ALLOW) => ALLOW, _ => DENY }
eval_and(l, r) ==
    IF l = ALLOW /\ r = ALLOW THEN ALLOW ELSE DENY

\* The arms of Or, tried in order.
eval_or(l, r) ==
    IF l = SILENT THEN r
    ELSE IF l = ALLOW /\ r = SILENT THEN ALLOW
    ELSE IF l = DENY \/ (l = ALLOW /\ r = DENY) THEN DENY
    ELSE ALLOW

RECURSIVE Node_eval(_)
Node_eval(self) ==
    IF self.kind = "Leaf" THEN self.val
    ELSE IF self.kind = "And"
    THEN eval_and(Node_eval(self.children[1]), Node_eval(self.children[2]))
    ELSE eval_or(Node_eval(self.children[1]), Node_eval(self.children[2]))

(***************************************************************************)
(* SpecNode: Nodes of at most MaxTreeNodes nodes are built bottom up on    *)
(* the stack; the top one is then evaluated.                               *)
(***************************************************************************)
RECURSIVE TreeNodes(_)
TreeNodes(ts) ==
    IF ts = <<>> THEN 0
    ELSE 1 + TreeNodes(Head(ts).children) + TreeNodes(Tail(ts))

InitNode ==
    /\ stack = <<>>
    /\ answer = NoEval
    /\ authz = NoAuthorized
    /\ history = <<>>
    /\ CombineIdle
    /\ ResolveIdle
    /\ PolicyIdle
    /\ AssertionIdle
    /\ MatcherIdle
    /\ TemplateIdle

\* Node::from(a) for a computed effect a.
PushLeaf ==
    /\ answer = NoEval
    /\ TreeNodes(stack) < MaxTreeNodes
    /\ \E a \in ComputedEffect : stack' = Append(stack, Node_from(a))
    /\ UNCHANGED <<decisionVars, assertionVars, matcherVars, templateVars>>
    /\ UNCHANGED <<authz, history, answer>>

\* l.and(r) of the two Nodes built last.
MakeAnd ==
    /\ answer = NoEval
    /\ Len(stack) >= 2
    /\ TreeNodes(stack) < MaxTreeNodes
    /\ stack' = Append(SubSeq(stack, 1, Len(stack) - 2),
                       Node_and(stack[Len(stack) - 1], stack[Len(stack)]))
    /\ UNCHANGED <<decisionVars, assertionVars, matcherVars, templateVars>>
    /\ UNCHANGED <<authz, history, answer>>

\* l.or(r) of the two Nodes built last.
MakeOr ==
    /\ answer = NoEval
    /\ Len(stack) >= 2
    /\ TreeNodes(stack) < MaxTreeNodes
    /\ stack' = Append(SubSeq(stack, 1, Len(stack) - 2),
                       Node_or(stack[Len(stack) - 1], stack[Len(stack)]))
    /\ UNCHANGED <<decisionVars, assertionVars, matcherVars, templateVars>>
    /\ UNCHANGED <<authz, history, answer>>

\* eval() of the Node built last.
Eval ==
    /\ answer = NoEval
    /\ stack # <<>>
    /\ answer' = [asked |-> TRUE, authorized |-> FALSE, silent |-> FALSE,
                  eval |-> Node_eval(stack[Len(stack)])]
    /\ UNCHANGED <<decisionVars, assertionVars, matcherVars, templateVars>>
    /\ UNCHANGED <<authz, history, stack>>

NextNode == PushLeaf \/ MakeAnd \/ MakeOr \/ Eval

SpecNode == InitNode /\ [][NextNode]_vars

\* What the two operands of the Node built last evaluate to.
Operands == <<Node_eval(Top.children[1]), Node_eval(Top.children[2])>>

\* C30: eval of a Leaf is its value; eval of Or(l, r) is combine_non_strict
\* of the two operands' values, in all nine combinations; eval of And(l, r)
\* is ALLOW when both operands evaluate to ALLOW and DENY otherwise, so an
\* And never evaluates to SILENT.
C30_NodeEval ==
    answer.asked =>
        /\ Top.kind = "Leaf" => answer.eval = Top.val
        /\ Top.kind = "Or" => answer.eval = combine_non_strict(Operands)
        /\ Top.kind = "And" =>
              /\ answer.eval = (IF Operands = <<ALLOW, ALLOW>> THEN ALLOW ELSE DENY)
              /\ answer.eval # SILENT

\* An Or of an allowing Leaf and an And of a silent and an allowing Leaf: the
\* And evaluated to DENY, and so did the Or.
C30_Witness ==
    /\ answer.asked
    /\ Top = Or(Leaf(ALLOW), And(Leaf(SILENT), Leaf(ALLOW)))
    /\ Operands = <<ALLOW, DENY>>
    /\ answer.eval = DENY

====
